---- MODULE Spec2Model ----
(***************************************************************************)
(* Model of ika::Pool<T> (src/src/lib.rs): an object pool made of a        *)
(* backing store `data`, an indirection table `offsets` of indices into    *)
(* `data`, and the partition cursor `alive_ct`.                            *)
(*                                                                         *)
(* Conventions.  Vec indices are 0-based in the source and the model keeps *)
(* them 0-based: the entries of `offsets` are 0-based cell indices and     *)
(* logical positions `at` are 0-based.  TLA+ sequences are 1-based, so     *)
(* Vec element k is s[k + 1].                                              *)
(*                                                                         *)
(* Every operation of Pool is a pure operator from a pool record           *)
(* [data, offsets, alive_ct] (and the call's arguments) to a record        *)
(* [pool, ret]; the actions apply the operators to the state variables     *)
(* and remember the call (op, arg), the pool before it (pre) and what it   *)
(* returned (ret).  spawned counts the calls of spawn for as long as the   *)
(* pool has only been spawned from since Pool::new.                        *)
(***************************************************************************)
EXTENDS Integers, Sequences, FiniteSets

\* Bound on data.len(): growth (attach, please_spawn, please_spawn_some,
\* Pool::new) stops at MaxCap cells.
MaxCap == 3

\* Element values are 0..MaxVal; 0 is T::default().
MaxVal == 1

Values == 0 .. MaxVal

\* T::default()
Default == 0

\* "no value": Option::None, or a call that returns ().
None == -1

VARIABLES data, offsets, alive_ct, op, arg, pre, ret, spawned

vars == <<data, offsets, alive_ct, op, arg, pre, ret, spawned>>

\* The pool as a record, the form the operators below take and return.
pool == [data |-> data, offsets |-> offsets, alive_ct |-> alive_ct]

----------------------------------------------------------------------------
\* Vec helpers (0-based).

\* slice::swap(i, j)
swap(s, i, j) ==
  [k \in 1 .. Len(s) |-> IF k = i + 1 THEN s[j + 1]
                         ELSE IF k = j + 1 THEN s[i + 1] ELSE s[k]]

\* Vec::remove(i), for i < len
vec_remove(s, i) == SubSeq(s, 1, i) \o SubSeq(s, i + 2, Len(s))

\* Vec::insert(i, x), for i <= len
vec_insert(s, i, x) == SubSeq(s, 1, i) \o <<x>> \o SubSeq(s, i + 1, Len(s))

\* What a call returns: whether it panicked, the value it returned (None if
\* it returns no value) and the cells of the references it handed out: the
\* ones it returned or, for the reclaims, the ones it passed to kill_fn.
Ret(panic, val, cells) == [panic |-> panic, val |-> val, cells |-> cells]

Result(p, r) == [pool |-> p, ret |-> r]

\* The arguments of a call (None for those the operation does not take; kill
\* is the set of cells whose element the predicate condemns).
Arg(at, count, obj, kill) == [at |-> at, count |-> count, obj |-> obj, kill |-> kill]

----------------------------------------------------------------------------
\* Inspection.

len(p) == p.alive_ct

capacity(p) == Len(p.offsets)

available(p) == Len(p.offsets) - p.alive_ct

is_empty(p) == available(p) = 0

\* offsets.get_unchecked(at)
offset_to_data_idx(p, at) == p.offsets[at + 1]

----------------------------------------------------------------------------
\* Construction.

new(size) ==
  [data |-> [k \in 1 .. size |-> Default],
   offsets |-> [k \in 1 .. size |-> k - 1],
   alive_ct |-> 0]

----------------------------------------------------------------------------
\* Allocation.

\* Called only with available() > 0 (spawn, please_spawn).
spawn_unchecked(p) ==
  LET at == p.alive_ct
  IN Result([p EXCEPT !.alive_ct = p.alive_ct + 1],
            Ret(FALSE, None, <<offset_to_data_idx(p, at)>>))

\* spawn refusing while one slot is still free.
spawn_stops_one_early(p) ==
  IF available(p) <= 1 THEN Result(p, Ret(FALSE, None, <<>>))
  ELSE spawn_unchecked(p)

spawn(p) ==
  IF is_empty(p) THEN Result(p, Ret(FALSE, None, <<>>))
  ELSE spawn_unchecked(p)

\* spawn_exact handing out what is available when count is too large.
spawn_exact_takes_what_is_there(p, count) ==
  IF count > available(p)
  THEN Result([p EXCEPT !.alive_ct = Len(p.offsets)],
              Ret(FALSE, None, SubSeq(p.offsets, p.alive_ct + 1, Len(p.offsets))))
  ELSE Result([p EXCEPT !.alive_ct = p.alive_ct + count],
              Ret(FALSE, None, SubSeq(p.offsets, p.alive_ct + 1, p.alive_ct + count)))

spawn_exact(p, count) ==
  IF count > available(p) THEN Result(p, Ret(FALSE, None, <<>>))
  ELSE Result([p EXCEPT !.alive_ct = p.alive_ct + count],
              Ret(FALSE, None, SubSeq(p.offsets, p.alive_ct + 1, p.alive_ct + count)))

\* cmp::min
min(a, b) == IF a <= b THEN a ELSE b

\* spawn_some passing count on without clamping it to available().
spawn_some_unclamped(p, count) == spawn_exact(p, count)

spawn_some(p, count) == spawn_exact(p, min(count, available(p)))

\* please_spawn pushing on data before it reads data.len() for the new
\* entry of offsets.
please_spawn_index_after_push(p) ==
  IF is_empty(p)
  THEN spawn_unchecked([p EXCEPT !.offsets = Append(p.offsets, Len(p.data) + 1),
                                 !.data = Append(p.data, Default)])
  ELSE spawn_unchecked(p)

please_spawn(p) ==
  IF is_empty(p)
  THEN spawn_unchecked([p EXCEPT !.offsets = Append(p.offsets, Len(p.data)),
                                 !.data = Append(p.data, Default)])
  ELSE spawn_unchecked(p)

\* The growth loop of please_spawn_some: to_add times, push data.len() on
\* offsets and T::default() on data.
\* The growth loop putting each new index at the front of offsets instead of
\* at its end.
RECURSIVE grow_at_front(_, _)
grow_at_front(p, to_add) ==
  IF to_add <= 0 THEN p
  ELSE grow_at_front([p EXCEPT !.offsets = <<Len(p.data)>> \o p.offsets,
                               !.data = Append(p.data, Default)],
                     to_add - 1)

RECURSIVE grow(_, _)
grow(p, to_add) ==
  IF to_add <= 0 THEN p
  ELSE grow([p EXCEPT !.offsets = Append(p.offsets, Len(p.data)),
                      !.data = Append(p.data, Default)],
            to_add - 1)

\* please_spawn_some adding count slots instead of the count - available()
\* that are missing.
please_spawn_some_grows_by_count(p, count) ==
  IF count > available(p)
  THEN spawn_exact(grow(p, count), count)
  ELSE spawn_exact(p, count)

please_spawn_some(p, count) ==
  IF count > available(p)
  THEN spawn_exact(grow(p, count - available(p)), count)
  ELSE spawn_exact(p, count)

----------------------------------------------------------------------------
\* Reclamation.

\* kill_fn(unsafe { self.get_at_offset(at) }): the verdict of the predicate on
\* the element that alive position `at` refers to.  The predicate is
\* identified with the set `kill` of cells whose element it condemns (data is
\* not written during a reclaim, so each cell holds one element throughout).
\* When offsets[at] lies outside data the read is undefined behaviour; its
\* verdict is then arbitrary, which `kill` ranging over all sets of cell
\* indices covers.
kill_fn(kill, p, at) == offset_to_data_idx(p, at) \in kill

\* The loop of reclaim from iteration i on: `for i in 0..len`, with del.
\* asked collects, in call order, the cells whose element was passed to
\* kill_fn; it ends up as the cells of the call's result.
RECURSIVE reclaim_loop(_, _, _, _, _, _)
reclaim_loop(p, kill, i, del, n, asked) ==
  IF i >= n THEN Result([p EXCEPT !.alive_ct = p.alive_ct - del], Ret(FALSE, None, asked))
  ELSE LET seen == Append(asked, offset_to_data_idx(p, i))
       IN IF kill_fn(kill, p, i) THEN reclaim_loop(p, kill, i + 1, del + 1, n, seen)
          ELSE IF del > 0
               THEN reclaim_loop([p EXCEPT !.offsets = swap(p.offsets, i, i - del)],
                                 kill, i + 1, del, n, seen)
               ELSE reclaim_loop(p, kill, i + 1, del, n, seen)

\* The loop of reclaim_unstable from iteration i on: `while i < len`; asked
\* as in reclaim_loop.
RECURSIVE reclaim_unstable_loop(_, _, _, _, _)
reclaim_unstable_loop(p, kill, i, n, asked) ==
  IF i >= n THEN Result([p EXCEPT !.alive_ct = n], Ret(FALSE, None, asked))
  ELSE LET seen == Append(asked, offset_to_data_idx(p, i))
       IN IF kill_fn(kill, p, i)
          THEN reclaim_unstable_loop([p EXCEPT !.offsets = swap(p.offsets, i, n - 1)],
                                     kill, i + 1, n - 1, seen)
          ELSE reclaim_unstable_loop(p, kill, i + 1, n, seen)

\* reclaim filling each hole with the last alive entry instead of shifting
\* the survivors down.
reclaim_fills_from_end(p, kill) == reclaim_unstable_loop(p, kill, 0, p.alive_ct, <<>>)

reclaim(p, kill) == reclaim_loop(p, kill, 0, 0, p.alive_ct, <<>>)

\* reclaim_unstable reading the predicate the other way round (recycling the
\* elements it is false of, as Vec::retain would keep them).
reclaim_unstable_inverted(p, kill) ==
  reclaim_unstable_loop(p, {p.offsets[k] : k \in 1 .. p.alive_ct} \ kill, 0, p.alive_ct, <<>>)

\* The loop of reclaim_unstable without its `self.offsets.swap(i, len)`.
RECURSIVE reclaim_unstable_loop_without_swap(_, _, _, _, _)
reclaim_unstable_loop_without_swap(p, kill, i, n, asked) ==
  IF i >= n THEN Result([p EXCEPT !.alive_ct = n], Ret(FALSE, None, asked))
  ELSE LET seen == Append(asked, offset_to_data_idx(p, i))
       IN IF kill_fn(kill, p, i)
          THEN reclaim_unstable_loop_without_swap(p, kill, i + 1, n - 1, seen)
          ELSE reclaim_unstable_loop_without_swap(p, kill, i + 1, n, seen)

\* reclaim_unstable shrinking the alive region without the swap.
reclaim_unstable_without_swap(p, kill) ==
  reclaim_unstable_loop_without_swap(p, kill, 0, p.alive_ct, <<>>)

reclaim_unstable(p, kill) == reclaim_unstable_loop(p, kill, 0, p.alive_ct, <<>>)

----------------------------------------------------------------------------
\* Structural mutation.

\* attach putting the new index at the end of the alive prefix, whatever `at`.
attach_at_end(p, at, obj) ==
  IF at > p.alive_ct THEN Result(p, Ret(TRUE, None, <<>>))
  ELSE Result([data |-> Append(p.data, obj),
               offsets |-> vec_insert(p.offsets, p.alive_ct, Len(p.data)),
               alive_ct |-> p.alive_ct + 1],
              Ret(FALSE, None, <<>>))

\* attach checking `at` against offsets.len() instead of alive_ct.
attach_checks_capacity(p, at, obj) ==
  IF at > Len(p.offsets) THEN Result(p, Ret(TRUE, None, <<>>))
  ELSE Result([data |-> Append(p.data, obj),
               offsets |-> vec_insert(p.offsets, at, Len(p.data)),
               alive_ct |-> p.alive_ct + 1],
              Ret(FALSE, None, <<>>))

attach(p, at, obj) ==
  IF at > p.alive_ct THEN Result(p, Ret(TRUE, None, <<>>))
  ELSE Result([data |-> Append(p.data, obj),
               offsets |-> vec_insert(p.offsets, at, Len(p.data)),
               alive_ct |-> p.alive_ct + 1],
              Ret(FALSE, None, <<>>))

\* `for offset in &mut self.offsets { if *offset > data_idx { *offset -= 1 } }`
shift_down(offs, data_idx) ==
  [k \in 1 .. Len(offs) |-> IF offs[k] > data_idx THEN offs[k] - 1 ELSE offs[k]]

\* detach without its final `self.alive_ct -= 1`.
detach_keeps_alive_ct(p, at) ==
  IF at >= p.alive_ct THEN Result(p, Ret(TRUE, None, <<>>))
  ELSE LET data_idx == offset_to_data_idx(p, at)
       IN IF data_idx >= Len(p.data) THEN Result(p, Ret(TRUE, None, <<>>))
          ELSE LET removed == vec_remove(p.offsets, at)
               IN Result([data |-> vec_remove(p.data, data_idx),
                          offsets |-> IF at # p.alive_ct - 1
                                      THEN shift_down(removed, data_idx)
                                      ELSE removed,
                          alive_ct |-> p.alive_ct],
                         Ret(FALSE, p.data[data_idx + 1], <<>>))

\* Vec::remove panics when data_idx >= data.len(); nothing has been changed
\* at that point.
detach(p, at) ==
  IF at >= p.alive_ct THEN Result(p, Ret(TRUE, None, <<>>))
  ELSE LET data_idx == offset_to_data_idx(p, at)
       IN IF data_idx >= Len(p.data) THEN Result(p, Ret(TRUE, None, <<>>))
          ELSE LET removed == vec_remove(p.offsets, at)
               IN Result([data |-> vec_remove(p.data, data_idx),
                          offsets |-> IF at # p.alive_ct - 1
                                      THEN shift_down(removed, data_idx)
                                      ELSE removed,
                          alive_ct |-> p.alive_ct - 1],
                         Ret(FALSE, p.data[data_idx + 1], <<>>))

----------------------------------------------------------------------------
\* Free-region ordering.

\* The ascending arrangement of s (slice::sort_unstable on usize): insertion
\* of each element into the sorted rest.
RECURSIVE sort_unstable(_)
sort_unstable(s) ==
  IF Len(s) <= 1 THEN s
  ELSE LET rest == sort_unstable(Tail(s))
           x == Head(s)
           below == SelectSeq(rest, LAMBDA y : y < x)
           above == SelectSeq(rest, LAMBDA y : y >= x)
       IN below \o <<x>> \o above

\* sort_the_dead sorting the whole table instead of offsets[alive_ct..].
sort_the_dead_sorts_everything(p) ==
  IF available(p) >= 2
  THEN Result([p EXCEPT !.offsets = sort_unstable(p.offsets)], Ret(FALSE, None, <<>>))
  ELSE Result(p, Ret(FALSE, None, <<>>))

sort_the_dead(p) ==
  IF available(p) >= 2
  THEN Result([p EXCEPT !.offsets =
                 SubSeq(p.offsets, 1, p.alive_ct)
                   \o sort_unstable(SubSeq(p.offsets, p.alive_ct + 1, Len(p.offsets)))],
              Ret(FALSE, None, <<>>))
  ELSE Result(p, Ret(FALSE, None, <<>>))

----------------------------------------------------------------------------
\* Indexed access.

\* get(at) / get_mut(at): the cell the returned reference points to, if any.
get(p, at) ==
  IF at < p.alive_ct THEN Result(p, Ret(FALSE, None, <<offset_to_data_idx(p, at)>>))
  ELSE Result(p, Ret(FALSE, None, <<>>))

\* iter() / iter_mut(), run to the end: the cells of the references that
\* next() yields, one per entry of offsets[..alive_ct], in that order.
iter(p) == Result(p, Ret(FALSE, None, SubSeq(p.offsets, 1, p.alive_ct)))

\* `*pool.get_mut(at).unwrap() = v` by the caller, for at < len().  A cell
\* index outside data (get_unchecked_mut out of bounds, undefined behaviour)
\* addresses the spare capacity behind data.len(): data's buffer never
\* shrinks and every entry of offsets was below data.len() when it was made,
\* so the store lands behind the Vec's elements and none of them changes.
write(p, at, v) ==
  LET idx == offset_to_data_idx(p, at)
  IN IF idx < Len(p.data)
     THEN Result([p EXCEPT !.data[idx + 1] = v], Ret(FALSE, None, <<idx>>))
     ELSE Result(p, Ret(FALSE, None, <<idx>>))

----------------------------------------------------------------------------
\* The state machine.

\* No call is in progress and no reference returned by an earlier call is
\* held (every returned reference borrows the pool, so the borrow has ended
\* before the next call).
Idle == op = "idle"

\* The calls that leave offsets and alive_ct alone: reads, and stores through
\* a reference to an alive element.
Accesses == {"get", "iter", "write"}

\* The number of spawn calls made since Pool::new while nothing but spawn
\* (and accesses) was called, None once another method has been called.  It
\* stops counting at capacity() + 1, "more calls than the pool had slots".
NextSpawned(name) ==
  IF spawned = None THEN None
  ELSE IF name = "spawn" THEN min(spawned + 1, Len(offsets) + 1)
  ELSE IF name \in Accesses THEN spawned
  ELSE None

\* One call: the pool becomes r.pool and the call is remembered.
Call(name, a, result) ==
  \E r \in {result} :
    /\ data' = r.pool.data
    /\ offsets' = r.pool.offsets
    /\ alive_ct' = r.pool.alive_ct
    /\ op' = name
    /\ arg' = a
    /\ pre' = pool
    /\ ret' = r.ret
    /\ spawned' = NextSpawned(name)

NoArg == Arg(None, None, None, {})

\* The arguments `at` and `count` the actions try against a limit n (len() or
\* available()): every value up to the limit and the first one beyond it.
UpTo(n) == 0 .. (n + 1)

Init ==
  \E size \in 0 .. MaxCap :
    /\ data = new(size).data
    /\ offsets = new(size).offsets
    /\ alive_ct = new(size).alive_ct
    /\ op = "new"
    /\ arg = Arg(None, size, None, {})
    /\ pre = new(size)
    /\ ret = Ret(FALSE, None, <<>>)
    /\ spawned = 0

Spawn ==
  /\ Idle
  /\ Call("spawn", NoArg, spawn(pool))

SpawnExact ==
  /\ Idle
  /\ \E count \in UpTo(available(pool)) :
       Call("spawn_exact", Arg(None, count, None, {}), spawn_exact(pool, count))

SpawnSome ==
  /\ Idle
  /\ \E count \in UpTo(available(pool)) :
       Call("spawn_some", Arg(None, count, None, {}), spawn_some(pool, count))

PleaseSpawn ==
  /\ Idle
  /\ is_empty(pool) => Len(data) < MaxCap
  /\ Call("please_spawn", NoArg, please_spawn(pool))

PleaseSpawnSome ==
  /\ Idle
  /\ \E count \in 0 .. MaxCap :
       /\ count > available(pool) => Len(data) + (count - available(pool)) <= MaxCap
       /\ Call("please_spawn_some", Arg(None, count, None, {}), please_spawn_some(pool, count))

\* The cells the alive prefix refers to: the only ones a reclaim asks the
\* predicate about.
AliveCells(p) == {p.offsets[k] : k \in 1 .. p.alive_ct}

Reclaim ==
  /\ Idle
  /\ \E kill \in SUBSET AliveCells(pool) :
       Call("reclaim", Arg(None, None, None, kill), reclaim(pool, kill))

ReclaimUnstable ==
  /\ Idle
  /\ \E kill \in SUBSET AliveCells(pool) :
       Call("reclaim_unstable", Arg(None, None, None, kill), reclaim_unstable(pool, kill))

Attach ==
  /\ Idle
  /\ \E at \in UpTo(alive_ct), obj \in Values :
       /\ at <= alive_ct => Len(data) < MaxCap
       /\ Call("attach", Arg(at, None, obj, {}), attach(pool, at, obj))

Detach ==
  /\ Idle
  /\ \E at \in UpTo(alive_ct) :
       Call("detach", Arg(at, None, None, {}), detach(pool, at))

\* `let v = pool.detach(at); pool.attach(at, v);` for at < len(): the two
\* calls in a row.  If detach panics, attach is not reached.
detach_attach(p, at) ==
  LET d == detach(p, at)
  IN IF d.ret.panic THEN d ELSE attach(d.pool, at, d.ret.val)

DetachAttach ==
  /\ Idle
  /\ \E at \in 0 .. (alive_ct - 1) :
       Call("detach_attach", Arg(at, None, None, {}), detach_attach(pool, at))

SortTheDead ==
  /\ Idle
  /\ Call("sort_the_dead", NoArg, sort_the_dead(pool))

\* The call is over: what it returned (value, references into data) is
\* dropped by the caller and the pool can be called again.
EndCall ==
  /\ op # "idle"
  /\ op' = "idle"
  /\ arg' = NoArg
  /\ pre' = pool
  /\ ret' = Ret(FALSE, None, <<>>)
  /\ UNCHANGED <<data, offsets, alive_ct, spawned>>

Write ==
  /\ Idle
  /\ \E at \in 0 .. (alive_ct - 1), v \in Values :
       Call("write", Arg(at, None, v, {}), write(pool, at, v))

Get ==
  /\ Idle
  /\ \E at \in UpTo(alive_ct) :
       Call("get", Arg(at, None, None, {}), get(pool, at))

Iter ==
  /\ Idle
  /\ Call("iter", NoArg, iter(pool))

Next ==
  \/ Spawn
  \/ SpawnExact
  \/ SpawnSome
  \/ PleaseSpawn
  \/ PleaseSpawnSome
  \/ Reclaim
  \/ ReclaimUnstable
  \/ Attach
  \/ Detach
  \/ DetachAttach
  \/ SortTheDead
  \/ Write
  \/ Get
  \/ Iter
  \/ EndCall

Spec == Init /\ [][Next]_vars

----------------------------------------------------------------------------
\* Properties.

\* The entries of s as a set.
Range(s) == {s[k] : k \in 1 .. Len(s)}

\* No entry of s occurs twice.
Injective(s) == \A i, j \in 1 .. Len(s) : i # j => s[i] # s[j]

\* The calls that hand out cells.
SpawnFamily == {"spawn", "spawn_exact", "spawn_some", "please_spawn", "please_spawn_some"}

\* C1: offsets is a permutation of 0..data.len(): every entry is below
\* data.len(), no backing-store index appears twice, and none is missing.
C1_PermutationInvariant ==
  /\ \A k \in 1 .. Len(offsets) : offsets[k] \in 0 .. (Len(data) - 1)
  /\ Injective(offsets)
  /\ \A c \in 0 .. (Len(data) - 1) : c \in Range(offsets)

\* C2: 0 <= alive_ct <= offsets.len() and offsets.len() = data.len(), so
\* available() does not underflow and len() + available() = capacity().
C2_AliveFreeAccounting ==
  /\ 0 <= alive_ct
  /\ alive_ct <= Len(offsets)
  /\ Len(offsets) = Len(data)
  /\ available(pool) >= 0
  /\ len(pool) + available(pool) = capacity(pool)

\* C2 witness: a pool whose every slot was alive has had an element detached
\* (capacity and alive count both went down, and the pool is full again).
C2_Witness ==
  /\ op = "detach"
  /\ ~ ret.panic
  /\ pre.alive_ct = Len(pre.offsets)
  /\ Len(pre.data) >= 2
  /\ alive_ct = Len(offsets)

\* C3: two distinct alive positions never resolve to the same cell, and every
\* cell handed out by a spawn-family call is a cell of data that was not
\* alive before the call and differs from the other cells of the same call.
C3_NoAliasing ==
  /\ \A i, j \in 1 .. alive_ct : i # j => offsets[i] # offsets[j]
  /\ op \in SpawnFamily =>
       /\ \A k \in 1 .. Len(ret.cells) :
            /\ ret.cells[k] \in 0 .. (Len(data) - 1)
            /\ ret.cells[k] \notin AliveCells(pre)
       /\ Injective(ret.cells)

\* Pool p satisfies the invariants I1 and I2 of the data model.
Valid(p) ==
  /\ Len(p.offsets) = Len(p.data)
  /\ p.alive_ct \in 0 .. Len(p.offsets)
  /\ Injective(p.offsets)
  /\ Range(p.offsets) = 0 .. (Len(p.data) - 1)

\* Every alive position of p refers to a cell of data, so that reading it is
\* defined.
Defined(p) == \A k \in 1 .. p.alive_ct : p.offsets[k] \in 0 .. (Len(p.data) - 1)

\* The element at alive position `at` (0-based) of p, as get(at) and iter()
\* see it; used where Defined(p).
Elem(p, at) == p.data[p.offsets[at + 1] + 1]

\* The alive prefix of offsets: the cells of the alive elements, in order.
AlivePrefix(p) == SubSeq(p.offsets, 1, p.alive_ct)

\* The alive positions (1-based) of p whose element the predicate spares.
Spared(p, kill) == {k \in 1 .. p.alive_ct : p.offsets[k] \notin kill}

\* C4: after reclaim(kill) the alive sequence is the previous alive sequence
\* restricted to the elements kill spared, in their original order; len() is
\* their number; the elements themselves are untouched.
C4_StableFilter ==
  op = "reclaim" =>
    /\ AlivePrefix(pool) = SelectSeq(AlivePrefix(pre), LAMBDA c : c \notin arg.kill)
    /\ alive_ct = Cardinality(Spared(pre, arg.kill))
    /\ data = pre.data

\* C4 witness: a reclaim that killed the first of three alive elements and
\* spared the two behind it, which hold different values.
C4_Witness ==
  /\ op = "reclaim"
  /\ Valid(pre)
  /\ pre.alive_ct = 3
  /\ Spared(pre, arg.kill) = {2, 3}
  /\ Elem(pre, 1) # Elem(pre, 2)
  /\ alive_ct = 2

\* C5: after reclaim_unstable(kill) the set of alive elements is the set of
\* previously alive elements that kill spared, and len() is their number.
C5_UnstableSurvivorSet ==
  op = "reclaim_unstable" =>
    /\ AliveCells(pool) = AliveCells(pre) \ arg.kill
    /\ alive_ct = Cardinality(Spared(pre, arg.kill))

\* C6: reclaim and reclaim_unstable with a predicate that is true of every
\* element leave len() = 0 and available() = capacity().
C6_KillEverything ==
  (op \in {"reclaim", "reclaim_unstable"} /\ AliveCells(pre) \subseteq arg.kill) =>
    /\ len(pool) = 0
    /\ available(pool) = capacity(pool)

\* C7: detach(at) with at < len(), on a pool that satisfies the invariants,
\* returns the element at alive position at; afterwards the alive sequence is
\* the previous one with position at removed (same values, same order), and
\* len() and capacity() are each one less.
C7_DetachRemovesOne ==
  (op = "detach" /\ arg.at < pre.alive_ct /\ Valid(pre)) =>
    /\ ~ ret.panic
    /\ ret.val = Elem(pre, arg.at)
    /\ len(pool) = len(pre) - 1
    /\ capacity(pool) = capacity(pre) - 1
    /\ Defined(pool)
    /\ \A q \in 0 .. (arg.at - 1) : Elem(pool, q) = Elem(pre, q)
    /\ \A q \in (arg.at + 1) .. (pre.alive_ct - 1) : Elem(pool, q - 1) = Elem(pre, q)

\* C8: attach(at, v) with at <= len(), on a pool that satisfies the
\* invariants: alive position at holds v, the positions below at are
\* unchanged, every previous position q >= at is now at q + 1 with the same
\* value, and len() and capacity() have each grown by one.
C8_AttachInserts ==
  (op = "attach" /\ arg.at <= pre.alive_ct /\ Valid(pre)) =>
    /\ ~ ret.panic
    /\ len(pool) = len(pre) + 1
    /\ capacity(pool) = capacity(pre) + 1
    /\ Defined(pool)
    /\ Elem(pool, arg.at) = arg.obj
    /\ \A q \in 0 .. (arg.at - 1) : Elem(pool, q) = Elem(pre, q)
    /\ \A q \in arg.at .. (pre.alive_ct - 1) : Elem(pool, q + 1) = Elem(pre, q)

\* C8 witness: an attach in the middle of the alive sequence (an element below
\* and an element above the new one), of a value the element it displaces
\* does not hold.
C8_Witness ==
  /\ op = "attach"
  /\ Valid(pre)
  /\ ~ ret.panic
  /\ pre.alive_ct = 2
  /\ arg.at = 1
  /\ Elem(pre, 1) # arg.obj
  /\ alive_ct = 3

\* C9: v = detach(i) followed by attach(i, v), for i < len() on a pool that
\* satisfies the invariants, gives an alive sequence position-wise equal in
\* value to the one before, with the same len().
C9_RoundTrip ==
  (op = "detach_attach" /\ Valid(pre)) =>
    /\ ~ ret.panic
    /\ len(pool) = len(pre)
    /\ Defined(pool)
    /\ \A q \in 0 .. (pre.alive_ct - 1) : Elem(pool, q) = Elem(pre, q)

\* C10: attach(at, v) with at > len() and detach(at) with at >= len() panic
\* and leave data, offsets and alive_ct as they were.
C10_BoundsEnforcement ==
  ((op = "attach" /\ arg.at > pre.alive_ct) \/ (op = "detach" /\ arg.at >= pre.alive_ct)) =>
    /\ ret.panic
    /\ pool = pre

\* C10 witness: an attach refused for a position beyond the alive elements
\* that is still within capacity.
C10_Witness ==
  /\ op = "attach"
  /\ arg.at > pre.alive_ct
  /\ arg.at <= Len(pre.offsets)
  /\ pre.alive_ct >= 1
  /\ ret.panic
  /\ pool = pre

\* C11: spawn_exact(count) with count > available() returns no handle and
\* leaves len(), available(), offsets and data unchanged; with
\* count <= available() it returns count handles, to the cells
\* offsets[old_len .. old_len + count) in that order, and len() grows by
\* count.
C11_SpawnExactAllOrNothing ==
  op = "spawn_exact" =>
    IF arg.count > available(pre)
    THEN /\ ret.cells = <<>>
         /\ pool = pre
    ELSE /\ Len(ret.cells) = arg.count
         /\ \A k \in 1 .. arg.count : ret.cells[k] = pre.offsets[pre.alive_ct + k]
         /\ len(pool) = len(pre) + arg.count
         /\ offsets = pre.offsets
         /\ data = pre.data

\* C11 witness: a spawn_exact refused although some slots, fewer than asked
\* for, were free.
C11_Witness ==
  /\ op = "spawn_exact"
  /\ available(pre) >= 1
  /\ arg.count > available(pre)
  /\ ret.cells = <<>>
  /\ pool = pre

\* C12: from Pool::new(n), with nothing but spawn called since, each of the
\* first n calls of spawn returns a handle to the cell at offsets[len()] and
\* adds one to len(); after them available() = 0; every later spawn returns
\* None and changes nothing.  (spawned is the number of calls so far, n + 1
\* standing for any number above n; n is capacity(), which spawn never
\* changes.)
C12_AllocationExhaustion ==
  spawned # None =>
    /\ len(pool) = min(spawned, capacity(pool))
    /\ spawned >= capacity(pool) => available(pool) = 0
    /\ (op = "spawn" /\ spawned <= capacity(pool)) =>
         /\ ret.cells = <<pre.offsets[pre.alive_ct + 1]>>
         /\ len(pool) = len(pre) + 1
         /\ offsets = pre.offsets
         /\ data = pre.data
    /\ (op = "spawn" /\ spawned > capacity(pool)) =>
         /\ ret.cells = <<>>
         /\ pool = pre

\* C12 witness: a pool of at least two slots was spawned from until it was
\* exhausted, and one more spawn has been refused.
C12_Witness ==
  /\ op = "spawn"
  /\ capacity(pool) >= 2
  /\ spawned = capacity(pool) + 1
  /\ ret.cells = <<>>
  /\ available(pool) = 0

\* C13: please_spawn_some(count) grows capacity() by max(0, count -
\* available()), returns count handles and adds count to len().
C13_PleaseSpawnSome ==
  op = "please_spawn_some" =>
    /\ capacity(pool) =
         capacity(pre) + (IF arg.count > available(pre) THEN arg.count - available(pre) ELSE 0)
    /\ Len(ret.cells) = arg.count
    /\ len(pool) = len(pre) + arg.count

\* C13 witness: a please_spawn_some that found one slot free, was asked for
\* more and grew the pool by the difference.
C13_Witness ==
  /\ op = "please_spawn_some"
  /\ available(pre) >= 1
  /\ arg.count > available(pre)
  /\ capacity(pool) > capacity(pre)
  /\ Len(ret.cells) = arg.count

\* C14: please_spawn() returns a handle and adds one to len(); with
\* available() = 0 before the call capacity() grows by one and the returned
\* cell is the newly appended one, holding T::default(); with available() > 0
\* capacity() does not grow.
C14_PleaseSpawn ==
  op = "please_spawn" =>
    /\ Len(ret.cells) = 1
    /\ len(pool) = len(pre) + 1
    /\ IF available(pre) = 0
       THEN /\ capacity(pool) = capacity(pre) + 1
            /\ Len(data) = Len(pre.data) + 1
            /\ ret.cells[1] = Len(data) - 1
            /\ data[Len(data)] = Default
       ELSE /\ capacity(pool) = capacity(pre)
            /\ data = pre.data

\* C14 witness: a please_spawn on a pool with elements and no free slot.
C14_Witness ==
  /\ op = "please_spawn"
  /\ available(pre) = 0
  /\ len(pre) >= 1
  /\ capacity(pool) = capacity(pre) + 1
  /\ Len(ret.cells) = 1

\* C15: spawn_some(count) returns min(count, available()) handles, adds that
\* number to len() and never changes capacity().
C15_SpawnSome ==
  op = "spawn_some" =>
    LET taken == IF arg.count <= available(pre) THEN arg.count ELSE available(pre)
    IN /\ Len(ret.cells) = taken
       /\ len(pool) = len(pre) + taken
       /\ capacity(pool) = capacity(pre)

\* C15 witness: a spawn_some asked for more than the two or more slots that
\* were free, and it handed out those.
C15_Witness ==
  /\ op = "spawn_some"
  /\ available(pre) >= 2
  /\ arg.count > available(pre)
  /\ Len(ret.cells) = available(pre)
  /\ available(pool) = 0

\* The cells the free region of p refers to.
FreeCells(p) == {p.offsets[k] : k \in (p.alive_ct + 1) .. Len(p.offsets)}

\* C16: get(at) / get_mut(at) return the cell data[offsets[at]] when
\* at < len() and None when at >= len(); iter() / iter_mut() yield len()
\* items, the k-th being data[offsets[k]]; every cell returned is a cell of
\* data and none is a cell of the free region.
C16_AliveRegionAccess ==
  /\ op = "get" =>
       IF arg.at < len(pool)
       THEN /\ ret.cells = <<offsets[arg.at + 1]>>
            /\ ret.cells[1] \in 0 .. (Len(data) - 1)
            /\ ret.cells[1] \notin FreeCells(pool)
       ELSE ret.cells = <<>>
  /\ op = "iter" =>
       /\ Len(ret.cells) = len(pool)
       /\ \A k \in 1 .. len(pool) :
            /\ ret.cells[k] = offsets[k]
            /\ ret.cells[k] \in 0 .. (Len(data) - 1)
            /\ ret.cells[k] \notin FreeCells(pool)

\* How often c occurs in s.
Occurrences(s, c) == Cardinality({k \in 1 .. Len(s) : s[k] = c})

\* The free region of offsets.
FreeSuffix(p) == SubSeq(p.offsets, p.alive_ct + 1, Len(p.offsets))

\* C17: after sort_the_dead() the free region offsets[len()..capacity()) is
\* in ascending order and holds the same indices as before, while alive_ct,
\* the alive prefix of offsets and data are unchanged.
C17_SortTheDead ==
  op = "sort_the_dead" =>
    /\ \A i, j \in 1 .. Len(FreeSuffix(pool)) :
         i < j => FreeSuffix(pool)[i] <= FreeSuffix(pool)[j]
    /\ Len(FreeSuffix(pool)) = Len(FreeSuffix(pre))
    /\ \A c \in FreeCells(pre) \cup FreeCells(pool) :
         Occurrences(FreeSuffix(pool), c) = Occurrences(FreeSuffix(pre), c)
    /\ alive_ct = pre.alive_ct
    /\ AlivePrefix(pool) = AlivePrefix(pre)
    /\ data = pre.data

\* C17 witness: a sort_the_dead on a pool with an alive element whose free
\* region was out of order.
C17_Witness ==
  /\ op = "sort_the_dead"
  /\ Valid(pre)
  /\ pre.alive_ct >= 1
  /\ \E i, j \in 1 .. Len(FreeSuffix(pre)) :
       i < j /\ FreeSuffix(pre)[i] > FreeSuffix(pre)[j]
  /\ offsets # pre.offsets

\* C18: spawn, spawn_exact, spawn_some, please_spawn and please_spawn_some
\* leave every position below the old len() on the same cell with the same
\* value; growth only appends to offsets and to data.
C18_AllocationKeepsPositions ==
  op \in SpawnFamily =>
    /\ \A q \in 0 .. (len(pre) - 1) : offset_to_data_idx(pool, q) = offset_to_data_idx(pre, q)
    /\ Len(offsets) >= Len(pre.offsets)
    /\ SubSeq(offsets, 1, Len(pre.offsets)) = pre.offsets
    /\ Len(data) >= Len(pre.data)
    /\ SubSeq(data, 1, Len(pre.data)) = pre.data

\* C18 witness: a please_spawn_some that grew a pool which had alive
\* elements.
C18_Witness ==
  /\ op = "please_spawn_some"
  /\ Valid(pre)
  /\ len(pre) >= 1
  /\ capacity(pool) > capacity(pre)
  /\ AlivePrefix(pre) = SubSeq(offsets, 1, len(pre))

\* C19: reclaim and reclaim_unstable with a predicate that is false of every
\* alive element, or on a pool with len() = 0, leave offsets, data and
\* alive_ct unchanged.
C19_KillNothing ==
  (/\ op \in {"reclaim", "reclaim_unstable"}
   /\ (arg.kill \cap AliveCells(pre) = {} \/ len(pre) = 0)) =>
    pool = pre

\* C19 witness: a reclaim_unstable that spared all of two or more alive
\* elements.
C19_Witness ==
  /\ op = "reclaim_unstable"
  /\ len(pre) >= 2
  /\ arg.kill \cap AliveCells(pre) = {}
  /\ pool = pre

\* C20: reclaim_unstable frees only elements it passed to kill and kill was
\* true of, never lengthens the alive region, and leaves data, the capacity,
\* the indices held by offsets and every entry at or past the old len() as
\* they were.
C20_UnstableFreesOnlyKilled ==
  op = "reclaim_unstable" =>
    /\ \A k \in (alive_ct + 1) .. pre.alive_ct :
         /\ offsets[k] \in Range(ret.cells)
         /\ offsets[k] \in arg.kill
    /\ len(pool) <= len(pre)
    /\ data = pre.data
    /\ capacity(pool) = capacity(pre)
    /\ \A c \in Range(offsets) \cup Range(pre.offsets) :
         Occurrences(offsets, c) = Occurrences(pre.offsets, c)
    /\ SubSeq(offsets, pre.alive_ct + 1, Len(offsets))
         = SubSeq(pre.offsets, pre.alive_ct + 1, Len(pre.offsets))

\* reclaim_unstable kills the first of three alive elements and moves the
\* last one into its place.
C20_Witness ==
  /\ op = "reclaim_unstable"
  /\ Valid(pre)
  /\ len(pre) = 3
  /\ arg.kill = {pre.offsets[1]}
  /\ len(pool) = 2
  /\ offsets[1] = pre.offsets[3]
  /\ offsets[3] = pre.offsets[1]

====
